---- MODULE Spec2Model ----
(***************************************************************************)
(* A model of weather_monitor.cpp: the class WeatherMonitor, the free      *)
(* function calculate_average_temperature and main.                        *)
(*                                                                         *)
(* A double is modelled as an exact rational [num, den] in lowest terms    *)
(* (den > 0), or as the NaN a 0.0/0.0 produces.  Objects live in a heap    *)
(* keyed by address, so that copying an object and referring to it are     *)
(* different things.  Standard output is the sequence of the text lines    *)
(* written so far; the text of a double is built digit by digit the way    *)
(* operator<< builds it (default precision, %g).                           *)
(***************************************************************************)
EXTENDS Integers, Sequences, FiniteSets, TLC

VARIABLES
    heap,       \* address -> the object there, or NoObj
    monitors,   \* the vector: the addresses of its elements, in order
    out,        \* standard output: the lines written
    ret,        \* what the last call returned (avg_temp in main)
    pc,         \* the line of main about to run, "exit", or "client"
    exit_code,  \* << >> while running, <<c>> once main returned c
    call,       \* the last call made: what was called, on what, with what
    latest,     \* monitor1, monitor2 -> the readings of the last
                \* update_weather on it, << >> if it had none
    ctor        \* monitor1, monitor2 -> the label each was constructed with

vars == <<heap, monitors, out, ret, pc, exit_code, call, latest, ctor>>

\* The longest vector<WeatherMonitor> a client of the class builds.
MaxMonitors == 2

(***************************************************************************)
(* double                                                                  *)
(***************************************************************************)
Abs(n) == IF n < 0 THEN -n ELSE n

RECURSIVE Gcd(_, _)
Gcd(a, b) == IF b = 0 THEN a ELSE Gcd(b, a % b)

\* The double whose value is n/d (d # 0), in lowest terms.
D(n, d) ==
    LET g == Gcd(Abs(n), Abs(d))
        s == IF d < 0 THEN -1 ELSE 1
    IN  [num |-> s * (n \div g), den |-> s * (d \div g)]

\* The literal 0.0.
Zero == D(0, 1)

IsNaN(x) == "nan" \in DOMAIN x
IsInf(x) == "inf" \in DOMAIN x
IsFinite(x) == "num" \in DOMAIN x

\* total += x, on finite doubles.
dadd(x, y) == D(x.num * y.den + y.num * x.den, x.den * y.den)

\* A NaN.  Its sign is not part of the value: it differs between targets
\* (x86 SSE sets it, ARM does not), is the same at every call of one build,
\* and shows only in the text of a NaN (Texts below).
NaN == [nan |-> TRUE]

\* x / n, n a size_t converted to double.  A division by zero is undefined in
\* C++; what an IEEE-754 build yields is a NaN for 0.0/0.0 and an infinity of
\* x's sign otherwise.
ddiv(x, n) ==
    IF n # 0 THEN D(x.num, x.den * n)
    ELSE IF x.num = 0 THEN NaN
    ELSE [inf |-> IF x.num < 0 THEN "-inf" ELSE "inf"]

(***************************************************************************)
(* ostream << double: floatfield unset, precision 6, i.e. printf("%g").    *)
(***************************************************************************)
Digit(d) == SubSeq("0123456789", d + 1, d + 1)

RECURSIVE NatStr(_)
NatStr(n) == IF n < 10 THEN Digit(n) ELSE NatStr(n \div 10) \o Digit(n % 10)

RECURSIVE Pow10(_)
Pow10(k) == IF k = 0 THEN 1 ELSE 10 * Pow10(k - 1)

\* The decimal exponent of n/d > 0: the e with 10^e <= n/d < 10^(e+1).
RECURSIVE Exp10Up(_, _, _)
Exp10Up(n, d, e) == IF n >= 10 * d THEN Exp10Up(n, 10 * d, e + 1) ELSE e

RECURSIVE Exp10Down(_, _, _)
Exp10Down(n, d, e) == IF n < d THEN Exp10Down(10 * n, d, e - 1) ELSE e

Exp10(n, d) == IF n >= d THEN Exp10Up(n, d, 0) ELSE Exp10Down(n, d, 0)

\* n/d rounded to the nearest integer, ties to even.
RoundDiv(n, d) ==
    LET q == n \div d
        r == n % d
    IN  IF 2 * r > d \/ (2 * r = d /\ q % 2 = 1) THEN q + 1 ELSE q

\* The six significant digits of n/d > 0 as an integer m in 10^5 .. 10^6 - 1
\* and the exponent e with n/d ~ m * 10^(e-5).
SigDigits(n, d) ==
    LET e == Exp10(n, d)
        m == IF e <= 5 THEN RoundDiv(n * Pow10(5 - e), d)
                       ELSE RoundDiv(n, d * Pow10(e - 5))
    IN  IF m = Pow10(6) THEN [m |-> Pow10(5), e |-> e + 1] ELSE [m |-> m, e |-> e]

\* The w digits of f, zero-padded on the left, with the trailing zeros dropped.
RECURSIVE Frac(_, _)
Frac(f, w) ==
    IF w = 0 \/ f = 0 THEN ""
    ELSE IF f % 10 = 0 THEN Frac(f \div 10, w - 1)
    ELSE Frac(f \div 10, w - 1) \o Digit(f % 10)

RECURSIVE Zeros(_)
Zeros(k) == IF k = 0 THEN "" ELSE "0" \o Zeros(k - 1)

\* The leading zeros Frac drops when f is shorter than w digits.
RECURSIVE Pad(_, _)
Pad(f, w) == IF w = 0 \/ f = 0 \/ f >= Pow10(w - 1) THEN "" ELSE "0" \o Pad(f, w - 1)

Point(s) == IF s = "" THEN "" ELSE "." \o s

\* %g of m * 10^(e-5): fixed notation for -4 <= e < 6, scientific otherwise.
FmtSig(m, e) ==
    IF e >= 0 /\ e <= 5
    THEN LET p == Pow10(5 - e)
         IN  NatStr(m \div p) \o Point(Pad(m % p, 5 - e) \o Frac(m % p, 5 - e))
    ELSE IF e < 0 /\ e >= -4
    THEN "0." \o Zeros(-e - 1) \o Frac(m, 6)
    ELSE Digit(m \div Pow10(5)) \o Point(Pad(m % Pow10(5), 5) \o Frac(m % Pow10(5), 5))
         \o "e" \o (IF e < 0 THEN "-" ELSE "+")
         \o (IF Abs(e) < 10 THEN "0" ELSE "") \o NatStr(Abs(e))

\* The text operator<< writes for the double x, not a NaN.
FmtG(x) ==
    IF IsInf(x) THEN x.inf
    ELSE IF x.num = 0 THEN "0"
    ELSE LET s == SigDigits(Abs(x.num), x.den)
         IN  (IF x.num < 0 THEN "-" ELSE "") \o FmtSig(s.m, s.e)

\* FmtG, worked out once for the doubles the callers below pass as readings.
FmtCache ==
    [x \in {Zero, D(255, 10), D(60, 1), D(10132, 10), D(18, 1), D(75, 1),
            D(10085, 10), D(-55, 10), D(-5, 1), D(1, 4)} |-> FmtG(x)]

Fmt(x) == IF x \in DOMAIN FmtCache THEN FmtCache[x] ELSE FmtG(x)

\* The texts operator<< can write for the double x: a NaN is written with
\* the sign the target gave it.
Texts(x) == IF IsNaN(x) THEN {"nan", "-nan"} ELSE {Fmt(x)}

(***************************************************************************)
(* class WeatherMonitor.  A member function is an operator on the object   *)
(* it is called on: self is the object after the call, cout the lines it   *)
(* wrote, ret the value it returned.                                       *)
(***************************************************************************)
\* A constructor that leaves pressure at the standard atmosphere.
WeatherMonitor_preset(loc) ==
    [location |-> loc, temperature |-> Zero, humidity |-> Zero,
     pressure |-> D(101325, 100)]

\* WeatherMonitor(string loc)
WeatherMonitor(loc) ==
    [location |-> loc, temperature |-> Zero, humidity |-> Zero, pressure |-> Zero]

\* The implicit copy constructor: member by member.
WeatherMonitor_copy(m) ==
    [location |-> m.location, temperature |-> m.temperature,
     humidity |-> m.humidity, pressure |-> m.pressure]

\* An update_weather that validates: a negative humidity is not stored.
update_weather_validating(self, temp, hum, pres) ==
    LET s == [self EXCEPT !.temperature = temp,
                          !.humidity = IF hum.num < 0 THEN @ ELSE hum,
                          !.pressure = pres]
    IN  [self |-> s,
         cout |-> << "Weather updated for " \o s.location
                     \o ": Temp=" \o Fmt(s.temperature) \o "°C, Humidity="
                     \o Fmt(s.humidity) \o "%, Pressure=" \o Fmt(s.pressure)
                     \o "hPa" >>]

\* void update_weather(double temp, double hum, double pres)
update_weather(self, temp, hum, pres) ==
    LET s == [self EXCEPT !.temperature = temp, !.humidity = hum, !.pressure = pres]
    IN  [self |-> s,
         cout |-> << "Weather updated for " \o s.location
                     \o ": Temp=" \o Fmt(s.temperature) \o "°C, Humidity="
                     \o Fmt(s.humidity) \o "%, Pressure=" \o Fmt(s.pressure)
                     \o "hPa" >>]

\* A display_weather whose last two lines print each other's member.
display_weather_swapped(self) ==
    [self |-> self,
     cout |-> << "Current weather in " \o self.location \o ":",
                 "Temperature: " \o Fmt(self.temperature) \o "°C",
                 "Humidity: " \o Fmt(self.pressure) \o "%",
                 "Pressure: " \o Fmt(self.humidity) \o " hPa" >>]

\* void display_weather()
display_weather(self) ==
    [self |-> self,
     cout |-> << "Current weather in " \o self.location \o ":",
                 "Temperature: " \o Fmt(self.temperature) \o "°C",
                 "Humidity: " \o Fmt(self.humidity) \o "%",
                 "Pressure: " \o Fmt(self.pressure) \o " hPa" >>]

\* A get_temperature that consumes the reading: it returns it and zeroes it.
get_temperature_consuming(self) ==
    [self |-> [self EXCEPT !.temperature = Zero], ret |-> self.temperature]

\* double get_temperature()
get_temperature(self) == [self |-> self, ret |-> self.temperature]

(***************************************************************************)
(* double calculate_average_temperature(vector<WeatherMonitor>& monitors)  *)
(***************************************************************************)
\* The loop with total = in place of total +=.
RECURSIVE average_loop_assign(_, _, _)
average_loop_assign(ms, i, total) ==
    IF i > Len(ms) THEN [monitors |-> ms, total |-> total]
    ELSE LET g == get_temperature(ms[i])
         IN  average_loop_assign([ms EXCEPT ![i] = g.self], i + 1, g.ret)

\* for (auto& monitor : monitors) total += monitor.get_temperature();
\* ms are the vector's elements, which the loop reaches by reference.
RECURSIVE average_loop(_, _, _)
average_loop(ms, i, total) ==
    IF i > Len(ms) THEN [monitors |-> ms, total |-> total]
    ELSE LET g == get_temperature(ms[i])
         IN  average_loop([ms EXCEPT ![i] = g.self], i + 1, dadd(total, g.ret))

\* An average that returns the total, undivided.
calculate_average_temperature_undivided(ms) ==
    LET l == average_loop(ms, 1, Zero)
    IN  [monitors |-> l.monitors, ret |-> l.total]

\* An average whose loop starts at the second element.
calculate_average_temperature_skipping(ms) ==
    LET l == average_loop(ms, 2, Zero)
    IN  [monitors |-> l.monitors, ret |-> ddiv(l.total, Len(ms))]

\* monitors: the elements after the call; ret: what the call returns.
calculate_average_temperature(ms) ==
    LET l == average_loop(ms, 1, Zero)
    IN  [monitors |-> l.monitors, ret |-> ddiv(l.total, Len(ms))]

(***************************************************************************)
(* Objects.  monitor1 and monitor2 live at addresses 1 and 2, the elements *)
(* of the vector in its own storage behind them.                           *)
(***************************************************************************)
Locals == {1, 2}
Storage == 3 .. (2 + MaxMonitors)
Addr == Locals \cup Storage

NoObj == [free |-> TRUE]
Live(h, a) == "location" \in DOMAIN h[a]

\* A vector that refers to its initializers (vector<WeatherMonitor*>).
vector_init_referring(h, srcs) ==
    [heap  |-> [a \in Addr |-> IF a \in Locals THEN h[a] ELSE NoObj],
     elems |-> srcs]

\* vector<WeatherMonitor> monitors = {...}: the vector copy-constructs one
\* element per initializer, in order, into its own storage.  srcs are the
\* addresses of the initializers.
vector_init(h, srcs) ==
    [heap  |-> [a \in Addr |->
                   IF a \in Locals THEN h[a]
                   ELSE IF a - 2 <= Len(srcs) THEN WeatherMonitor_copy(h[srcs[a - 2]])
                   ELSE NoObj],
     elems |-> [k \in 1 .. Len(srcs) |-> 2 + k]]

\* The vector's elements, as values.
Elems(h, ms) == [k \in 1 .. Len(ms) |-> h[ms[k]]]

(***************************************************************************)
(* The callers.  main runs lines 52 to 65 in order (pc is the line about   *)
(* to run).  A client (pc = "client") is any other user of the class: it   *)
(* constructs monitor1 and monitor2 with labels of its choice and then     *)
(* calls the member functions, rebuilds the vector and averages in any     *)
(* order, reading and emptying the captured output between two calls.      *)
(***************************************************************************)
Labels == {"New York", "London"}

NewYorkReading == <<D(255, 10), D(60, 1), D(10132, 10)>>
LondonReading  == <<D(18, 1), D(75, 1), D(10085, 10)>>

\* An implausible reading: -5.5 degrees, a humidity of -5 %, 0.25 hPa.
Implausible == <<D(-55, 10), D(-5, 1), D(1, 4)>>

\* The readings a client passes.
Readings == {NewYorkReading, Implausible}

SeqsUpTo(S, n) == UNION {[1 .. k -> S] : k \in 0 .. n}

Void == [void |-> TRUE]
Call(op, var, idx, args) == [op |-> op, var |-> var, idx |-> idx, args |-> args]

\* What a call can name: monitor1, monitor2, monitors[k].
Targets ==
    {[var |-> "monitor", idx |-> a] : a \in {b \in Locals : Live(heap, b)}}
    \cup {[var |-> "monitors", idx |-> k] : k \in 1 .. Len(monitors)}

\* monitor1 and monitor2 alone.
LocalTargets == {t \in Targets : t.var = "monitor"}

AddrOf(t) == IF t.var = "monitor" THEN t.idx ELSE monitors[t.idx]

\* Standard output after a call wrote lines: all that main has written; for
\* a client, which empties what it captured before each call, these lines.
Stdout(lines) == IF pc = "client" THEN lines ELSE out \o lines

Init ==
    /\ heap = [a \in Addr |-> NoObj]
    /\ monitors = << >>
    /\ out = << >>
    /\ ret = Void
    /\ pc \in {"L52", "client"}
    /\ exit_code = << >>
    /\ call = Call("none", "none", 0, << >>)
    /\ latest = [a \in Locals |-> << >>]
    /\ ctor = [a \in Locals |-> ""]

\* WeatherMonitor monitor<a>(loc);
DoConstruct(a, loc) ==
    /\ heap' = [heap EXCEPT ![a] = WeatherMonitor(loc)]
    /\ out' = Stdout(<< >>)
    /\ ret' = Void
    /\ call' = Call("WeatherMonitor", "monitor", a, <<loc>>)
    /\ latest' = [latest EXCEPT ![a] = << >>]
    /\ ctor' = [ctor EXCEPT ![a] = loc]
    /\ UNCHANGED <<monitors, exit_code>>

\* An update_weather on static data members: every object has the readings.
DoUpdate_static(t, r) ==
    LET res == update_weather(heap[AddrOf(t)], r[1], r[2], r[3])
    IN  /\ heap' = [a \in Addr |->
                      IF a = AddrOf(t) THEN res.self
                      ELSE IF Live(heap, a)
                      THEN [heap[a] EXCEPT !.temperature = r[1], !.humidity = r[2],
                                           !.pressure = r[3]]
                      ELSE heap[a]]
        /\ out' = Stdout(res.cout)
        /\ ret' = Void
        /\ call' = Call("update_weather", t.var, t.idx, r)
        /\ latest' = [a \in Locals |-> IF a = AddrOf(t) THEN r ELSE latest[a]]
        /\ UNCHANGED <<monitors, exit_code, ctor>>

\* t.update_weather(r[1], r[2], r[3]);
DoUpdate(t, r) ==
    LET res == update_weather(heap[AddrOf(t)], r[1], r[2], r[3])
    IN  /\ heap' = [heap EXCEPT ![AddrOf(t)] = res.self]
        /\ out' = Stdout(res.cout)
        /\ ret' = Void
        /\ call' = Call("update_weather", t.var, t.idx, r)
        /\ latest' = [a \in Locals |-> IF a = AddrOf(t) THEN r ELSE latest[a]]
        /\ UNCHANGED <<monitors, exit_code, ctor>>

\* t.display_weather();
DoDisplay(t) ==
    LET res == display_weather(heap[AddrOf(t)])
    IN  /\ heap' = [heap EXCEPT ![AddrOf(t)] = res.self]
        /\ out' = Stdout(res.cout)
        /\ ret' = Void
        /\ call' = Call("display_weather", t.var, t.idx, << >>)
        /\ UNCHANGED <<monitors, exit_code, latest, ctor>>

\* t.get_temperature()
DoGetTemperature(t) ==
    LET res == get_temperature(heap[AddrOf(t)])
    IN  /\ heap' = [heap EXCEPT ![AddrOf(t)] = res.self]
        /\ out' = Stdout(<< >>)
        /\ ret' = res.ret
        /\ call' = Call("get_temperature", t.var, t.idx, << >>)
        /\ UNCHANGED <<monitors, exit_code, latest, ctor>>

\* vector<WeatherMonitor> monitors = {monitor<srcs[1]>, ...};
DoVector(srcs) ==
    LET v == vector_init(heap, srcs)
    IN  /\ heap' = v.heap
        /\ monitors' = v.elems
        /\ out' = Stdout(<< >>)
        /\ ret' = Void
        /\ call' = Call("vector", "monitors", 0, srcs)
        /\ UNCHANGED <<exit_code, latest, ctor>>

\* calculate_average_temperature(monitors)
DoAverage ==
    LET res == calculate_average_temperature(Elems(heap, monitors))
    IN  /\ heap' = [a \in Addr |->
                      IF \E k \in 1 .. Len(monitors) : monitors[k] = a
                      THEN res.monitors[CHOOSE k \in 1 .. Len(monitors) : monitors[k] = a]
                      ELSE heap[a]]
        /\ ret' = res.ret
        /\ out' = Stdout(<< >>)
        /\ call' = Call("calculate_average_temperature", "monitors", 0, << >>)
        /\ UNCHANGED <<monitors, exit_code, latest, ctor>>

(***************************************************************************)
(* A client.                                                               *)
(***************************************************************************)
Construct(a, loc) ==
    /\ pc = "client" /\ ~Live(heap, a)
    /\ DoConstruct(a, loc)
    /\ UNCHANGED pc

Update(t, r) == pc = "client" /\ DoUpdate(t, r) /\ UNCHANGED pc

Display(t) == pc = "client" /\ DoDisplay(t) /\ UNCHANGED pc

GetTemperature(t) == pc = "client" /\ DoGetTemperature(t) /\ UNCHANGED pc

Vector(srcs) == pc = "client" /\ DoVector(srcs) /\ UNCHANGED pc

Average == pc = "client" /\ DoAverage /\ UNCHANGED pc

(***************************************************************************)
(* int main()                                                              *)
(***************************************************************************)
Monitor1 == [var |-> "monitor", idx |-> 1]
Monitor2 == [var |-> "monitor", idx |-> 2]

Main52 == pc = "L52" /\ DoConstruct(1, "New York") /\ pc' = "L53"
Main53 == pc = "L53" /\ DoConstruct(2, "London") /\ pc' = "L55"
Main55 == pc = "L55" /\ DoUpdate(Monitor1, NewYorkReading) /\ pc' = "L56"
Main56 == pc = "L56" /\ DoUpdate(Monitor2, LondonReading) /\ pc' = "L58"
Main58 == pc = "L58" /\ DoDisplay(Monitor1) /\ pc' = "L59"
Main59 == pc = "L59" /\ DoDisplay(Monitor2) /\ pc' = "L61"
Main61 == pc = "L61" /\ DoVector(<<1, 2>>) /\ pc' = "L62"
Main62 == pc = "L62" /\ DoAverage /\ pc' = "L63"

\* cout << "Average temperature across locations: " << avg_temp << "°C" << endl;
\* avg_temp is what line 62 returned.
Main63 ==
    /\ pc = "L63"
    /\ \E text \in Texts(ret) :
          out' = out \o << "Average temperature across locations: " \o text \o "°C" >>
    /\ pc' = "L65"
    /\ UNCHANGED <<heap, monitors, ret, exit_code, call, latest, ctor>>

\* return 0;
Main65 ==
    /\ pc = "L65"
    /\ exit_code' = <<0>>
    /\ pc' = "exit"
    /\ UNCHANGED <<heap, monitors, out, ret, call, latest, ctor>>

Main ==
    \/ Main52 \/ Main53 \/ Main55 \/ Main56 \/ Main58
    \/ Main59 \/ Main61 \/ Main62 \/ Main63 \/ Main65

Client ==
    \/ \E a \in Locals, loc \in Labels : Construct(a, loc)
    \/ \E t \in Targets, r \in Readings : Update(t, r)
    \/ \E t \in LocalTargets : Display(t)
    \/ \E t \in LocalTargets : GetTemperature(t)
    \/ \E srcs \in SeqsUpTo({a \in Locals : Live(heap, a)}, MaxMonitors) : Vector(srcs)
    \/ Average

Next == Main \/ Client

Spec == Init /\ [][Next]_vars

(***************************************************************************)
(* What the properties below are stated with.                              *)
(***************************************************************************)
IsDouble(x) == IsFinite(x) \/ IsNaN(x) \/ IsInf(x)

\* The object the last call was made on, when it was made on one.
Self == heap[IF call.var = "monitor" THEN call.idx ELSE monitors[call.idx]]

\* The temperatures in the vector, in order.
Temps == [k \in 1 .. Len(monitors) |-> heap[monitors[k]].temperature]

\* x is the arithmetic mean of the finite doubles ts, worked out over their
\* common denominator c: x * Len(ts) = (sum of ts).
RECURSIVE DenProduct(_)
DenProduct(ts) == IF ts = << >> THEN 1 ELSE Head(ts).den * DenProduct(Tail(ts))

RECURSIVE NumSum(_, _)
NumSum(ts, c) ==
    IF ts = << >> THEN 0
    ELSE Head(ts).num * (c \div Head(ts).den) + NumSum(Tail(ts), c)

IsMean(x, ts) ==
    LET c == DenProduct(ts)
    IN  IsFinite(x) /\ x.num * Len(ts) * c = x.den * NumSum(ts, c)

\* The permutations of 1 .. n.
Perms(n) == {p \in [1 .. n -> 1 .. n] : \A i, j \in 1 .. n : i # j => p[i] # p[j]}

\* The last n lines of standard output.
LastLines(n) == SubSeq(out, Len(out) - n + 1, Len(out))

\* s holds sub.
Contains(s, sub) ==
    \E i \in 1 .. (Len(s) - Len(sub) + 1) : SubSeq(s, i, i + Len(sub) - 1) = sub

\* The text of the doubles the callers pass, as a C++ build prints them.
Text(x) ==
    CASE x = Zero -> "0"
      [] x = D(255, 10) -> "25.5"
      [] x = D(60, 1) -> "60"
      [] x = D(10132, 10) -> "1013.2"
      [] x = D(18, 1) -> "18"
      [] x = D(75, 1) -> "75"
      [] x = D(10085, 10) -> "1008.5"
      [] x = D(-55, 10) -> "-5.5"
      [] x = D(-5, 1) -> "-5"
      [] x = D(1, 4) -> "0.25"

\* What the program prints.
ProgramOutput ==
    << "Weather updated for New York: Temp=25.5°C, Humidity=60%, Pressure=1013.2hPa",
       "Weather updated for London: Temp=18°C, Humidity=75%, Pressure=1008.5hPa",
       "Current weather in New York:",
       "Temperature: 25.5°C",
       "Humidity: 60%",
       "Pressure: 1013.2 hPa",
       "Current weather in London:",
       "Temperature: 18°C",
       "Humidity: 75%",
       "Pressure: 1008.5 hPa",
       "Average temperature across locations: 21.75°C" >>

IsPrefix(s, t) == Len(s) <= Len(t) /\ s = SubSeq(t, 1, Len(s))

\* main's lines, in the order they run.
MainLines == <<"L52", "L53", "L55", "L56", "L58", "L59", "L61", "L62", "L63", "L65", "exit">>
Rank(l) == CHOOSE k \in 1 .. Len(MainLines) : MainLines[k] = l

(***************************************************************************)
(* C1                                                                      *)
(***************************************************************************)
\* C1: a call of calculate_average_temperature on an empty vector signals an
\* error to its caller: it does not hand back a double (a NaN, an infinity or
\* a number) as its ordinary result.
C1_EmptyAverageSignalsError ==
    (call.op = "calculate_average_temperature" /\ Len(monitors) = 0)
        => ~IsDouble(ret)

(***************************************************************************)
(* C2                                                                      *)
(***************************************************************************)
\* C2: what calculate_average_temperature returned for a non-empty vector is
\* the arithmetic mean of its elements' temperatures: for one element its
\* temperature itself, for the temperatures 25.5 and 18.0 the double 21.75.
C2_AverageIsMean ==
    (call.op = "calculate_average_temperature" /\ Len(monitors) > 0)
        => /\ IsMean(ret, Temps)
           /\ Len(monitors) = 1 => ret = Temps[1]
           /\ Temps = <<D(255, 10), D(18, 1)>> => ret = D(2175, 100)

\* The average of 25.5 and 18.0 has been returned.
C2_Witness ==
    /\ call.op = "calculate_average_temperature"
    /\ Temps = <<D(255, 10), D(18, 1)>>
    /\ ret = D(2175, 100)

(***************************************************************************)
(* C3                                                                      *)
(***************************************************************************)
\* C3: a station that has been updated holds the three readings its last
\* update_weather was passed, whatever they are and whatever has been called
\* since, and get_temperature returns the temperature passed; right after an
\* update_weather on any object, an element of the vector too, the object
\* holds the three arguments.
C3_UpdateOverwrites ==
    /\ \A a \in Locals :
          latest[a] # << >> =>
             /\ Live(heap, a)
             /\ heap[a].temperature = latest[a][1]
             /\ heap[a].humidity = latest[a][2]
             /\ heap[a].pressure = latest[a][3]
             /\ get_temperature(heap[a]).ret = latest[a][1]
    /\ call.op = "update_weather" =>
          /\ Self.temperature = call.args[1]
          /\ Self.humidity = call.args[2]
          /\ Self.pressure = call.args[3]
          /\ get_temperature(Self).ret = call.args[1]

\* A station last updated with the implausible reading has since been
\* displayed, while the other station holds another reading.
C3_Witness ==
    /\ call.op = "display_weather"
    /\ latest[call.idx] = Implausible
    /\ \E b \in Locals : latest[b] = NewYorkReading

(***************************************************************************)
(* C4                                                                      *)
(***************************************************************************)
\* C4: a station constructed with a label and not updated since holds 0.0 as
\* its temperature, humidity and pressure, and get_temperature returns 0.0,
\* whatever has been called on the other objects.
C4_FreshIsZero ==
    \A a \in Locals :
       (Live(heap, a) /\ latest[a] = << >>) =>
          /\ heap[a].temperature = Zero
          /\ heap[a].humidity = Zero
          /\ heap[a].pressure = Zero
          /\ get_temperature(heap[a]).ret = Zero

\* A station is still as constructed right after the other one was updated.
C4_Witness ==
    \E a, b \in Locals :
       /\ a # b /\ Live(heap, a) /\ latest[a] = << >>
       /\ call.op = "update_weather" /\ call.var = "monitor" /\ call.idx = b
       /\ latest[b] = Implausible

(***************************************************************************)
(* C5                                                                      *)
(***************************************************************************)
\* C5: the vector holds copies made when it is built.  Building it gives it
\* the values its initializers have at that moment and changes no station;
\* an update_weather on one of its elements changes neither monitor1 nor
\* monitor2; an update_weather on monitor1 or monitor2 changes no element,
\* and so not the average over the vector.
C5_VectorHoldsCopies ==
    [][ /\ call'.op = "vector" =>
             /\ Elems(heap', monitors')
                  = [k \in 1 .. Len(call'.args) |-> heap[call'.args[k]]]
             /\ \A a \in Locals : heap'[a] = heap[a]
        /\ (call'.op = "update_weather" /\ call'.var = "monitors") =>
             \A a \in Locals : heap'[a] = heap[a]
        /\ (call'.op = "update_weather" /\ call'.var = "monitor") =>
             /\ Elems(heap', monitors') = Elems(heap, monitors)
             /\ calculate_average_temperature(Elems(heap', monitors')).ret
                  = calculate_average_temperature(Elems(heap, monitors)).ret
      ]_vars

\* A station has just been updated and the vector holds a copy of it, made
\* before, with another temperature.
C5_Witness ==
    /\ call.op = "update_weather" /\ call.var = "monitor"
    /\ ctor[1] # ctor[2]
    /\ \E k \in 1 .. Len(monitors) :
          /\ heap[monitors[k]].location = heap[call.idx].location
          /\ heap[monitors[k]].temperature # heap[call.idx].temperature

(***************************************************************************)
(* C6                                                                      *)
(***************************************************************************)
ReadOnly == {"get_temperature", "display_weather", "calculate_average_temperature"}

\* C6: get_temperature, display_weather and calculate_average_temperature
\* change no field of any object and not the vector; and the same call made
\* again returns the same value and writes the same lines.
C6_ReadOnlyCalls ==
    [][ call'.op \in ReadOnly =>
           /\ heap' = heap
           /\ monitors' = monitors
           /\ (call' = call /\ pc = "client") => (ret' = ret /\ out' = out)
      ]_vars

\* The average has been taken over a vector of two stations with different
\* readings, one of them updated with the implausible reading.
C6_Witness ==
    /\ call.op = "calculate_average_temperature"
    /\ Len(monitors) = 2
    /\ Temps[1] # Temps[2]
    /\ \E a \in Locals : latest[a] = Implausible

(***************************************************************************)
(* C7                                                                      *)
(***************************************************************************)
\* C7: after every call monitor1 and monitor2 have the location they were
\* constructed with; the location of an element of the vector changes only
\* when the vector is built anew; and an update_weather changes no object
\* but the one it is called on.
C7_LocationAndFrame ==
    [][ /\ \A a \in Locals : Live(heap', a) => heap'[a].location = ctor'[a]
        /\ call'.op = "WeatherMonitor" => heap'[call'.idx].location = call'.args[1]
        /\ call'.op # "vector" =>
             \A a \in Storage : Live(heap, a) =>
                (Live(heap', a) /\ heap'[a].location = heap[a].location)
        /\ call'.op = "update_weather" =>
             \A b \in Addr :
                b # (IF call'.var = "monitor" THEN call'.idx ELSE monitors[call'.idx])
                   => heap'[b] = heap[b]
      ]_vars

\* The station labelled London has been updated, displayed and averaged
\* over, and the other station holds other readings.
C7_Witness ==
    /\ call.op = "calculate_average_temperature"
    /\ Len(monitors) > 0
    /\ \E a, b \in Locals :
          /\ Live(heap, a) /\ Live(heap, b)
          /\ heap[a].location = "London" /\ latest[a] = Implausible
          /\ heap[b].location = "New York" /\ latest[b] = NewYorkReading

(***************************************************************************)
(* C8                                                                      *)
(***************************************************************************)
\* C8: display_weather writes four lines: the station's location, then its
\* temperature, humidity and pressure as they are stored, 0 for each on a
\* station that was never updated; for New York with (25.5, 60.0, 1013.2)
\* they hold "New York", "25.5", "60" and "1013.2".  A client can call it on
\* every station it has constructed.
C8_DisplayShowsReadings ==
    /\ call.op = "display_weather" =>
          /\ Len(out) >= 4
          /\ LastLines(4) =
                << "Current weather in " \o Self.location \o ":",
                   "Temperature: " \o Text(Self.temperature) \o "°C",
                   "Humidity: " \o Text(Self.humidity) \o "%",
                   "Pressure: " \o Text(Self.pressure) \o " hPa" >>
          /\ latest[call.idx] = << >> =>
                /\ LastLines(4)[2] = "Temperature: 0°C"
                /\ LastLines(4)[3] = "Humidity: 0%"
                /\ LastLines(4)[4] = "Pressure: 0 hPa"
          /\ (latest[call.idx] = NewYorkReading /\ ctor[call.idx] = "New York") =>
                /\ Contains(LastLines(4)[1], "New York")
                /\ Contains(LastLines(4)[2], "25.5")
                /\ Contains(LastLines(4)[3], "60")
                /\ Contains(LastLines(4)[4], "1013.2")
    /\ pc = "client" => \A t \in LocalTargets : ENABLED Display(t)

\* A station that was never updated has been displayed.
C8_Witness ==
    /\ call.op = "display_weather"
    /\ latest[call.idx] = << >>
    /\ LastLines(4)[2] = "Temperature: 0°C"

(***************************************************************************)
(* C9                                                                      *)
(***************************************************************************)
\* C9: main runs its lines in order, one after the other, to the end: at
\* every line another one is ready to run, what it has written is the
\* beginning of the program's output, and it has no exit code yet.  Both
\* updates are made before the vector is built, so the average is 21.75.
\* At the end the output is the two confirmations, the two display blocks
\* and the average line, in this order, and the exit code is 0.
C9_MainRunsToExit ==
    /\ [](pc # "client" =>
            /\ IsPrefix(out, ProgramOutput)
            /\ pc # "exit" => (exit_code = << >> /\ ENABLED Main)
            /\ Rank(pc) >= Rank("L61") =>
                  (latest[1] = NewYorkReading /\ latest[2] = LondonReading)
            /\ Rank(pc) >= Rank("L62") => Temps = <<D(255, 10), D(18, 1)>>
            /\ Rank(pc) >= Rank("L63") => ret = D(2175, 100)
            /\ pc = "exit" => (exit_code = <<0>> /\ out = ProgramOutput))
    /\ [][pc # "client" => Rank(pc') = Rank(pc) + 1]_vars

\* main has returned.
C9_Witness == pc = "exit" /\ exit_code = <<0>> /\ Len(out) = Len(ProgramOutput)

(***************************************************************************)
(* C10                                                                     *)
(***************************************************************************)
\* C10: calculate_average_temperature returns the same double for a
\* non-empty vector and for every reordering of it.
C10_OrderIndependent ==
    Len(monitors) > 0 =>
       \A p \in Perms(Len(monitors)) :
          calculate_average_temperature(
              [k \in 1 .. Len(monitors) |-> heap[monitors[p[k]]]]).ret
            = calculate_average_temperature(Elems(heap, monitors)).ret

\* The average has been taken over a vector whose first and last
\* temperatures differ.
C10_Witness ==
    /\ call.op = "calculate_average_temperature"
    /\ Len(monitors) >= 2
    /\ Temps[1] # Temps[Len(monitors)]
    /\ IsFinite(ret)

====
